---- MODULE Spec2Model ----
(***************************************************************************)
(* Job lifecycle of the collage-maker frontend: file set, create request,  *)
(* status polling through the job query, reset.  The client state is the   *)
(* state of the CollageMaker component (useState hooks), the job query     *)
(* (useQuery) and the create mutation (useMutation); the backend and the   *)
(* network are the environment.                                            *)
(***************************************************************************)
EXTENDS Integers, Sequences, FiniteSets, TLC

\* null / undefined, for a job, a request or a query's data
None == [absent |-> TRUE]
\* undefined, for an optional string
Undefined == "undefined"

(* ------------------------------ bounds -------------------------------- *)
\* backend job ids are 1..MaxJobs: at most MaxJobs jobs are ever created
MaxJobs == 2
\* create requests of the px branch that may be in flight together
MaxPxInFlight == 1
\* files the user picks in a run, accepted or not
MaxPicked == 2
\* files picked plus removals (of single files, or suggested by the grid
\* advisor) in a run
MaxFileOps == 3
\* longest FileList given to one processFiles call
MaxBatch == 2

(* ------------------------- program constants -------------------------- *)
MAX_FILES == 100
\* the fewest images a collage is made of
MIN_FILES == 2
MAX_FILE_SIZE == 10 * 1024 * 1024
TOTAL_MAX_SIZE == 500 * 1024 * 1024
ACCEPTED_TYPES ==
    {"image/jpeg", "image/png", "image/gif", "image/bmp", "image/tiff", "image/webp"}
\* the count above which the grid advisor's add-images action is refused
ADD_LIMIT == 200
\* refetchInterval: 2000 ms while polling, 0 stands for `false` (no timer)
PollEvery == 2000
NoTimer == 0

(* ------------------------------ inputs -------------------------------- *)
JobIds == 1..MaxJobs
Modes == {"mm", "px"}
OutputFormats == {"jpeg", "png", "tiff"}
\* configurations handed to onCreateCollage by the form
\* (the formats a run chooses among: one explicit choice and the unset field)
FormatChoices == {"png", Undefined}
Configs == [mode : Modes, output_format : FormatChoices]
\* files the user may pick: one acceptable, one too large, one of a wrong type
FileSizes == {5 * 1024 * 1024, 11 * 1024 * 1024}
FileTypes == {"image/jpeg", "text/plain"}
PickedFiles ==
    {f \in [size : FileSizes, type : FileTypes] :
        f.type \in ACCEPTED_TYPES \/ f.size <= MAX_FILE_SIZE}
FileLists == UNION {[1..n -> PickedFiles] : n \in 1..MaxBatch}
\* the suggestions of the grid advisor: how many images to add or to remove
ImagesNeeded == {2, 150}
ImagesToRemove == {1, 3}
\* what the user may type into the number inputs of the form, per field:
\* a value inside and a value outside the bounds of the schema
NumberFields(mode) ==
    IF mode = "mm" THEN {"width_mm", "height_mm", "dpi", "spacing"}
    ELSE {"width_px", "height_px", "dpi", "spacing"}
NumberInputs(field) ==
    CASE field = "width_mm" -> {40, 150}
      [] field = "height_mm" -> {100, 1300}
      [] field = "width_px" -> {1920, 30000}
      [] field = "height_px" -> {200, 1080}
      [] field = "dpi" -> {50, 150}
      [] field = "spacing" -> {30, 150}
\* the colors the user may pick or type: none of them is the transparent one
BackgroundChoices == {"#FFFFFF", "#112233", "red"}
TRANSPARENT == "#00000000"
\* HTTP responses of the backend: the status, and the fields error and detail
\* of the JSON body; a 429 carries error, every other non-2xx carries detail
Statuses == {200, 201, 304, 400, 404, 429, 500}
ErrorTexts == {"Rate limit exceeded", "Collage not found"}
Paths == {"request", "download"}
Responses ==
    {r \in [path : Paths, status : Statuses,
            error : ErrorTexts \cup {"undefined"},
            detail : ErrorTexts \cup {"undefined"}] :
        /\ r.status = 429 => r.error # "undefined"
        /\ r.status \notin {200, 201, 429} => r.detail # "undefined"
        /\ r.status \in {200, 201} => r.error = "undefined" /\ r.detail = "undefined"}

VARIABLES
    files,                  \* useState<FileWithPreview[]>
    picked,                 \* number of files picked in this run
    removed,                \* number of removals in this run
    unrevoked,              \* preview handles created and not revoked (by file id)
    currentJob,             \* useState<CollageJob | null>
    currentOutputFormat,    \* useState<string>("jpeg")
    gridOptimization,       \* useState<GridOptimizationData | null>
    showGridOptimization,   \* useState(false)
    optimizeMutation,       \* the pending optimizeGridMutation request, or None
    downloads,              \* downloadCollage requests in flight
    overlapAnalysis,        \* useState<AnalyzeOverlapResponse | null> (analysis version)
    showAnalysisResults,    \* useState(false) (analysis version)
    analyzeMutation,        \* the pending analyzeOverlapsMutation request, or None
    createMutation,         \* the pending createCollageMutation request, or None
    pxCreates,              \* createCollageByPixels requests in flight
    queryData,              \* query cache: job id -> data of query ["job", id]
    statusReqs,             \* getJobStatus requests in flight
    backend,                \* the backend's jobs: job id -> snapshot, or None
    toast,                  \* the notice shown by the last step, if any (the
                            \* last error notice when the step showed several)
    observedTerminal,       \* history: ids for which a terminal response arrived
    fetchFailed,            \* the observed query's last fetch failed (status "error")
    createFormats,          \* the output_format field of the create requests in flight
    jobFormat,              \* history: the output_format each job was requested with
    form,                   \* ConfigurationPanel: the values of the form (useForm)
    handed,                 \* ConfigurationPanel: the configuration the last step
                            \* handed to onCreateCollage or onOptimizeGrid, if any
    response,               \* ApiClient: the response the last fetch resolved with
    thrown                  \* ApiClient: the message of the Error the call threw,
                            \* "none" when it returned, "pending" before it decides

vars == <<files, picked, removed, unrevoked, currentJob,
          currentOutputFormat, gridOptimization, showGridOptimization,
          optimizeMutation, downloads, overlapAnalysis, showAnalysisResults,
          analyzeMutation, createMutation, pxCreates, queryData, statusReqs,
          backend, toast, observedTerminal, fetchFailed, createFormats,
          jobFormat, form, handed, response, thrown>>

fileVars == <<files, picked, removed, unrevoked>>
gridVars == <<gridOptimization, showGridOptimization, optimizeMutation>>
overlapVars == <<overlapAnalysis, showAnalysisResults, analyzeMutation>>
\* what the job lifecycle of the grid version leaves alone
formatVars == <<createFormats, jobFormat>>
\* what only the specifications of single components look at
errorVars == <<response, thrown>>
panelVars == <<form, handed>>
\* what only the specifications of single components look at
extraVars == <<formatVars, errorVars, panelVars>>
sideVars == <<downloads, overlapVars, extraVars>>
histVars == <<observedTerminal, fetchFailed>>
\* the state of the CollageMaker component and of its requests
componentVars == <<fileVars, currentJob, currentOutputFormat, gridVars, downloads,
                   overlapVars, createMutation, pxCreates, queryData, statusReqs,
                   backend, toast, histVars, formatVars>>

(* ------------------------------ helpers ------------------------------- *)
Terminal(status) == status \in {"completed", "failed"}

\* reduce((sum, f) => sum + f.size, 0) over the first n files of s
RECURSIVE SumFirst(_, _)
SumFirst(s, n) == IF n = 0 THEN 0 ELSE SumFirst(s, n - 1) + s[n].size

SumSizes(s) == SumFirst(s, Len(s))

RemoveAt(s, i) == SubSeq(s, 1, i - 1) \o SubSeq(s, i + 1, Len(s))

\* the placeholder built by the create success handlers
Placeholder(id) ==
    [job_id |-> id, status |-> "pending", created_at |-> "client", progress |-> 0,
     output_file |-> Undefined, error_message |-> Undefined]

\* the snapshots the backend can hold for job id
BackendCreated(id) ==
    [job_id |-> id, status |-> "pending", created_at |-> "server", progress |-> 0,
     output_file |-> Undefined, error_message |-> Undefined]

NextJobId == Cardinality({j \in JobIds : backend[j] # None}) + 1

(* --------------------------- the job query ---------------------------- *)
\* enabled: !!currentJob
QueryEnabled == currentJob # None

\* queryKey: ["job", currentJob?.job_id]; 0 stands for the key of no job
QueryKey == IF currentJob = None THEN 0 ELSE currentJob.job_id

\* const { data: jobStatus } = useQuery(...): the data cached under the key
JobStatusOf(job, cache) == IF job = None THEN None ELSE cache[job.job_id]

jobStatus == JobStatusOf(currentJob, queryData)

\* query.state of the query of job j, as the observer sees it
QueryState(j) ==
    [data |-> queryData[j], status |-> IF fetchFailed THEN "error"
                                       ELSE IF queryData[j] = None THEN "pending"
                                       ELSE "success"]

\* refetchInterval that never stops the timer
RefetchIntervalAlways(query) == PollEvery

\* refetchInterval that gives up once a fetch has failed
RefetchIntervalStopOnError(query) ==
    IF query.status = "error" THEN NoTimer
    ELSE IF query.data # None /\ Terminal(query.data.status) THEN NoTimer
    ELSE PollEvery

\* refetchInterval that stops as soon as the job is being processed
RefetchIntervalStopEarly(query) ==
    IF query.data # None /\ query.data.status # "pending" THEN NoTimer ELSE PollEvery

\* refetchInterval: (query) => terminal ? false : 2000
RefetchInterval(query) ==
    IF query.data # None /\ Terminal(query.data.status) THEN NoTimer ELSE PollEvery

\* a timer per job that was ever polled, never cleared when the key changes
TimerActiveAnyKey(j) ==
    /\ backend[j] # None
    /\ RefetchInterval(QueryState(j)) # NoTimer

\* the observer's interval timer runs for the observed key only
TimerActive(j) ==
    /\ QueryEnabled
    /\ QueryKey = j
    /\ RefetchInterval(QueryState(j)) # NoTimer

\* a fetch of the query is in flight (a second fetch is not started meanwhile)
Fetching(j) == \E m \in statusReqs : m.job_id = j

\* a tick that starts a second fetch while one is in flight
CanPollNoDedup(j) == TimerActive(j)

CanPoll(j) == TimerActive(j) /\ ~Fetching(j)

\* useEffect(() => { if (jobStatus) setCurrentJob(jobStatus) ... }, [jobStatus])
\* runs when the query data observed by the component changed
EffectJob(job, oldStatus, newStatus) ==
    IF newStatus # oldStatus /\ newStatus # None THEN newStatus ELSE job

EffectToast(oldStatus, newStatus) ==
    IF newStatus # oldStatus /\ newStatus # None
    THEN IF newStatus.status = "completed" THEN "Collage completed successfully!"
         ELSE IF newStatus.status = "failed" THEN "Collage creation failed"
         ELSE Undefined
    ELSE Undefined

\* <JobStatus job={jobStatus ?? currentJob} /> rendered when currentJob is set
DisplayedOf(job, cache) ==
    IF job = None THEN None
    ELSE IF JobStatusOf(job, cache) # None THEN JobStatusOf(job, cache) ELSE job

displayedJob == DisplayedOf(currentJob, queryData)

(* ------------------------ what the UI offers -------------------------- *)
\* {files.length >= 2 && <ConfigurationPanel ... />}
PanelVisible == Len(files) >= MIN_FILES

\* isLoading={createCollageMutation.isPending}
isLoading == createMutation # None

\* disabled={!!currentJob}
disabled == currentJob # None

\* <Button type="submit" disabled={isLoading || disabled}>
SubmitEnabled == ~(isLoading \/ disabled)

\* a reset button shown for every displayed job
ResetOfferedAlways == displayedJob # None

\* the reset button of JobStatus
ResetOffered == displayedJob # None /\ Terminal(displayedJob.status)

\* a download button shown for every completed job, output file or not
DownloadOfferedNoFile ==
    /\ displayedJob # None
    /\ displayedJob.status = "completed"

\* the download button of JobStatus: job.status === "completed" && job.output_file
DownloadOffered ==
    /\ displayedJob # None
    /\ displayedJob.status = "completed"
    /\ displayedJob.output_file # Undefined

(* ------------------------------- Init --------------------------------- *)
\* a file set of n acceptable files of one size, uploaded before the run; the
\* preview handle of a file is named by the file's id
Uploaded(n, size) == [i \in 1..n |-> [id |-> i, size |-> size, type |-> "image/jpeg"]]

\* the file set after the user picked n acceptable files, one after the other
FirstPicked(n) == Uploaded(n, 5 * 1024 * 1024)

\* ids of the files of a file set
Ids(s) == {s[i].id : i \in 1..Len(s)}

\* nothing picked or removed in the run yet; every file has its preview handle
FreshUpload ==
    /\ picked = 0
    /\ removed = 0
    /\ unrevoked = Ids(files)

\* the hooks' initial values: no job, no request, nothing cached
\* no create request sent yet
NoFormats ==
    /\ createFormats = [mm |-> "none", px |-> <<>>]
    /\ jobFormat = [j \in JobIds |-> "none"]

\* DEFAULT_CONFIG (the fields of the px mode are not set before the first
\* change of the mode)
DEFAULT_CONFIG ==
    [mode |-> "mm", width_mm |-> 150, height_mm |-> 100, width_px |-> 0,
     height_px |-> 0, dpi |-> 150, spacing |-> 30, background_color |-> "#FFFFFF",
     output_format |-> "jpeg", transparency |-> FALSE]

\* the panel as mounted: the form holds its default values
PanelMounted ==
    /\ form = DEFAULT_CONFIG
    /\ handed = None

\* no call of the ApiClient made yet
NoResponse ==
    /\ response = None
    /\ thrown = "none"

NoJob ==
    /\ NoFormats
    /\ NoResponse
    /\ PanelMounted
    /\ currentJob = None
    /\ currentOutputFormat = "jpeg"
    /\ gridOptimization = None
    /\ showGridOptimization = FALSE
    /\ optimizeMutation = None
    /\ downloads = {}
    /\ overlapAnalysis = None
    /\ showAnalysisResults = FALSE
    /\ analyzeMutation = None
    /\ createMutation = None
    /\ pxCreates = <<>>
    /\ queryData = [j \in JobIds |-> None]
    /\ statusReqs = {}
    /\ backend = [j \in JobIds |-> None]
    /\ toast = Undefined
    /\ observedTerminal = {}
    /\ fetchFailed = FALSE

\* a job of the backend that completed with an output file
CompletedJob(id) ==
    [job_id |-> id, status |-> "completed", created_at |-> "server", progress |-> 100,
     output_file |-> "x.jpg", error_message |-> Undefined]

\* the state NoJob with job 1 created, polled to completion and still held
HoldsCompleted ==
    /\ NoFormats
    /\ NoResponse
    /\ PanelMounted
    /\ currentJob = CompletedJob(1)
    /\ currentOutputFormat = "jpeg"
    /\ gridOptimization = None
    /\ showGridOptimization = FALSE
    /\ optimizeMutation = None
    /\ downloads = {}
    /\ overlapAnalysis = None
    /\ showAnalysisResults = FALSE
    /\ analyzeMutation = None
    /\ createMutation = None
    /\ pxCreates = <<>>
    /\ queryData = [j \in JobIds |-> IF j = 1 THEN CompletedJob(1) ELSE None]
    /\ statusReqs = {}
    /\ backend = [j \in JobIds |-> IF j = 1 THEN CompletedJob(1) ELSE None]
    /\ toast = Undefined
    /\ observedTerminal = {1}
    /\ fetchFailed = FALSE

\* file sets uploaded before the run: few files, files up to the count ceiling,
\* files up to the aggregate size ceiling
InitialUploads ==
    {Uploaded(n, 5 * 1024 * 1024) : n \in {0, MIN_FILES, 2 * MIN_FILES}}
      \cup {Uploaded(MAX_FILES - 1, 1024 * 1024)}
      \cup {Uploaded(TOTAL_MAX_SIZE \div MAX_FILE_SIZE, MAX_FILE_SIZE)}

\* the upload area with files uploaded before the run and no job, or with the
\* files of a finished job that is still held
FileInit ==
    /\ \/ files \in InitialUploads /\ NoJob
       \/ files = FirstPicked(MIN_FILES) /\ HoldsCompleted
    /\ FreshUpload

\* the component as constructed: nothing uploaded, no job
Constructed ==
    /\ files = <<>>
    /\ FreshUpload
    /\ NoJob

\* the job lifecycle starts from an upload of up to MIN_FILES files
Init ==
    /\ files \in {FirstPicked(n) : n \in 0..MIN_FILES}
    /\ FreshUpload
    /\ NoJob

(* ---------------------------- file upload ----------------------------- *)
\* validateFile without the size test
validateFileTypeOnly(file) ==
    IF file.type \notin ACCEPTED_TYPES THEN "Invalid file type"
    ELSE Undefined

\* validateFile: the error for a file, or Undefined for null
validateFile(file) ==
    IF file.type \notin ACCEPTED_TYPES THEN "Invalid file type"
    ELSE IF file.size > MAX_FILE_SIZE THEN "File too large"
    ELSE Undefined

\* the forEach of processFiles: the valid files of the list, in list order,
\* each with a fresh id and a preview handle of its own
RECURSIVE NewFiles(_, _)
NewFiles(fileList, n) ==
    IF fileList = <<>> THEN <<>>
    ELSE IF validateFile(fileList[1]) = Undefined
         THEN <<[id |-> n + 1, size |-> fileList[1].size, type |-> fileList[1].type]>>
              \o NewFiles(Tail(fileList), n + 1)
         ELSE NewFiles(Tail(fileList), n + 1)

\* the errors array of processFiles
RECURSIVE FileErrors(_)
FileErrors(fileList) ==
    IF fileList = <<>> THEN <<>>
    ELSE IF validateFile(fileList[1]) = Undefined THEN FileErrors(Tail(fileList))
         ELSE <<validateFile(fileList[1])>> \o FileErrors(Tail(fileList))

\* the id given to the first file picked next: ids are never used twice (files
\* uploaded before the run have ids up to MAX_FILES)
FirstFreeId == MAX_FILES + picked

\* processFiles without the test of the file count
processFilesNoCountTest(fileList) ==
    LET newFiles == NewFiles(fileList, FirstFreeId)
        errors == FileErrors(fileList)
    IN  /\ picked + Len(fileList) <= MaxPicked
        /\ picked + removed + Len(fileList) <= MaxFileOps
        /\ picked' = picked + Len(fileList)
        /\ IF SumSizes(files) + SumSizes(fileList) > TOTAL_MAX_SIZE
           THEN /\ toast' = "Total file size exceeds 500MB limit."
                /\ UNCHANGED <<files, unrevoked>>
           ELSE /\ files' = files \o newFiles
                /\ unrevoked' = unrevoked \cup Ids(newFiles)
                /\ toast' = IF Len(errors) > 0 THEN errors[Len(errors)]
                            ELSE IF Len(newFiles) > 0 THEN "Added file(s)"
                            ELSE Undefined
        /\ UNCHANGED <<sideVars, removed, currentJob, currentOutputFormat, gridVars,
                       createMutation, pxCreates, queryData, statusReqs, backend,
                       histVars>>

\* processFiles without the test of the total size
processFilesNoSizeTest(fileList) ==
    LET newFiles == NewFiles(fileList, FirstFreeId)
        errors == FileErrors(fileList)
    IN  /\ picked + Len(fileList) <= MaxPicked
        /\ picked + removed + Len(fileList) <= MaxFileOps
        /\ picked' = picked + Len(fileList)
        /\ IF Len(files) + Len(fileList) > MAX_FILES
           THEN /\ toast' = "Too many files"
                /\ UNCHANGED <<files, unrevoked>>
           ELSE /\ files' = files \o newFiles
                /\ unrevoked' = unrevoked \cup Ids(newFiles)
                /\ toast' = IF Len(errors) > 0 THEN errors[Len(errors)]
                            ELSE IF Len(newFiles) > 0 THEN "Added file(s)"
                            ELSE Undefined
        /\ UNCHANGED <<sideVars, removed, currentJob, currentOutputFormat, gridVars,
                       createMutation, pxCreates, queryData, statusReqs, backend,
                       histVars>>

\* FileUpload.processFiles(fileList)
processFiles(fileList) ==
    LET newFiles == NewFiles(fileList, FirstFreeId)
        errors == FileErrors(fileList)
    IN  /\ picked + Len(fileList) <= MaxPicked
        /\ picked + removed + Len(fileList) <= MaxFileOps
        /\ picked' = picked + Len(fileList)
        /\ IF Len(files) + Len(fileList) > MAX_FILES
           THEN /\ toast' = "Too many files"
                /\ UNCHANGED <<files, unrevoked>>
           ELSE IF SumSizes(files) + SumSizes(fileList) > TOTAL_MAX_SIZE
           THEN /\ toast' = "Total file size exceeds 500MB limit."
                /\ UNCHANGED <<files, unrevoked>>
           ELSE /\ files' = files \o newFiles
                /\ unrevoked' = unrevoked \cup Ids(newFiles)
                /\ toast' = IF Len(errors) > 0 THEN errors[Len(errors)]
                            ELSE IF Len(newFiles) > 0 THEN "Added file(s)"
                            ELSE Undefined
        /\ UNCHANGED <<sideVars, removed, currentJob, currentOutputFormat, gridVars,
                       createMutation, pxCreates, queryData, statusReqs, backend,
                       histVars>>

\* FileUpload.removeFile(id), offered for every file shown
removeFile(id) ==
    /\ id \in Ids(files)
    /\ picked + removed < MaxFileOps
    /\ removed' = removed + 1
    /\ files' = SelectSeq(files, LAMBDA f : f.id # id)
    /\ unrevoked' = unrevoked \ {id}
    /\ toast' = "File removed"
    /\ UNCHANGED <<sideVars, picked, currentJob, currentOutputFormat,
                   gridVars, createMutation, pxCreates, queryData, statusReqs,
                   backend, histVars>>

\* the user removes the first or the last file shown
RemoveShown ==
    /\ files # <<>>
    /\ \E i \in {1, Len(files)} : removeFile(files[i].id)

(* --------------------------- job submission --------------------------- *)
\* the request built by handleCreateCollage
CreateRequest(config) ==
    [nfiles |-> Len(files)]

\* handleCreateCollage with the count test off by one
handleCreateCollageOffByOne(config) ==
    IF Len(files) < MIN_FILES - 1
    THEN /\ toast' = "Please upload at least 2 images"
         /\ UNCHANGED <<sideVars, fileVars, currentJob, currentOutputFormat, gridVars,
                        createMutation, pxCreates, queryData, statusReqs, backend,
                        histVars>>
    ELSE /\ currentOutputFormat' =
                IF config.output_format = Undefined THEN "jpeg" ELSE config.output_format
         /\ IF config.mode = "px"
            THEN /\ Len(pxCreates) < MaxPxInFlight
                 /\ pxCreates' = Append(pxCreates, CreateRequest(config))
                 /\ UNCHANGED createMutation
            ELSE /\ createMutation' = CreateRequest(config)
                 /\ UNCHANGED pxCreates
         /\ toast' = Undefined
         /\ UNCHANGED <<sideVars, fileVars, currentJob, gridVars, queryData, statusReqs,
                        backend, histVars>>

\* CollageMaker.handleCreateCollage(config)
handleCreateCollage(config) ==
    IF Len(files) < MIN_FILES
    THEN /\ toast' = "Please upload at least 2 images"
         /\ UNCHANGED <<sideVars, fileVars, currentJob, currentOutputFormat, gridVars,
                        createMutation, pxCreates, queryData, statusReqs, backend,
                        histVars>>
    ELSE /\ currentOutputFormat' =
                IF config.output_format = Undefined THEN "jpeg" ELSE config.output_format
         /\ IF config.mode = "px"
            THEN /\ Len(pxCreates) < MaxPxInFlight
                 /\ pxCreates' = Append(pxCreates, CreateRequest(config))
                 /\ UNCHANGED createMutation
            ELSE /\ createMutation' = CreateRequest(config)
                 /\ UNCHANGED pxCreates
         /\ toast' = Undefined
         /\ UNCHANGED <<sideVars, fileVars, currentJob, gridVars, queryData, statusReqs,
                        backend, histVars>>

\* the user submits the form of the configuration panel
SubmitForm(config) ==
    /\ PanelVisible
    /\ SubmitEnabled
    /\ handleCreateCollage(config)

\* the onCreateCollage callback invoked while the panel is not rendered
\* (the handler as a unit, with the submit button's own conditions)
CallCreateHandler(config) ==
    /\ ~PanelVisible
    /\ SubmitEnabled
    /\ handleCreateCollage(config)

\* setCurrentJob({job_id: response.job_id, status: "pending", ...}) followed
\* by the render in which the query observes the new key
CreateSucceeded(id) ==
    /\ currentJob' = EffectJob(Placeholder(id), jobStatus,
                               JobStatusOf(Placeholder(id), queryData))
    /\ toast' = "Collage creation started!"
    /\ fetchFailed' = FALSE

\* the backend accepts a create request and assigns the next job id
BackendCreates(id) ==
    /\ id = NextJobId
    /\ id \in JobIds
    /\ backend' = [backend EXCEPT ![id] = BackendCreated(id)]

\* createCollageMutation.onSuccess
CreateMutationSuccess ==
    /\ createMutation # None
    /\ \E id \in JobIds : BackendCreates(id) /\ CreateSucceeded(id)
    /\ createMutation' = None
    /\ UNCHANGED <<sideVars, fileVars, currentOutputFormat, gridVars, pxCreates, queryData,
                   statusReqs, observedTerminal>>

\* an onError that also drops the held job
CreateMutationErrorClears ==
    /\ createMutation # None
    /\ createMutation' = None
    /\ currentJob' = None
    /\ toast' = "Failed to create collage"
    /\ UNCHANGED <<sideVars, fileVars, currentOutputFormat, gridVars, pxCreates,
                   queryData, statusReqs, backend, histVars>>

\* createCollageMutation.onError
CreateMutationError ==
    /\ createMutation # None
    /\ createMutation' = None
    /\ toast' = "Failed to create collage"
    /\ UNCHANGED <<sideVars, fileVars, currentJob, currentOutputFormat, gridVars, pxCreates,
                   queryData, statusReqs, backend, histVars>>

\* createCollageByPixels(...).then(...)
CreatePixelsSuccess(i) ==
    /\ i \in 1..Len(pxCreates)
    /\ \E id \in JobIds : BackendCreates(id) /\ CreateSucceeded(id)
    /\ pxCreates' = RemoveAt(pxCreates, i)
    /\ UNCHANGED <<sideVars, fileVars, currentOutputFormat, gridVars, createMutation,
                   queryData, statusReqs, observedTerminal>>

\* createCollageByPixels(...).catch(...)
CreatePixelsError(i) ==
    /\ i \in 1..Len(pxCreates)
    /\ pxCreates' = RemoveAt(pxCreates, i)
    /\ toast' = "Failed to create collage"
    /\ UNCHANGED <<sideVars, fileVars, currentJob, currentOutputFormat, gridVars,
                   createMutation, queryData, statusReqs, backend, histVars>>

(* ------------------------------ polling ------------------------------- *)
\* the backend answers GET /api/collage/status/{job_id} with its snapshot
StatusAnswer(j) == [job_id |-> j, reply |-> backend[j]]

\* a status request sent for any job the backend knows, held or not
PollTickAnyJob(j) ==
    /\ backend[j] # None
    /\ ~Fetching(j)
    /\ statusReqs' = statusReqs \cup {StatusAnswer(j)}
    /\ UNCHANGED <<sideVars, fileVars, currentJob, currentOutputFormat, gridVars,
                   createMutation, pxCreates, queryData, backend, histVars>>
    /\ toast' = Undefined

\* the query issues queryFn: apiClient.getJobStatus(currentJob.job_id); the
\* backend takes the snapshot it answers with when the request reaches it, and
\* the answer is on its way from then on
PollTick(j) ==
    /\ CanPoll(j)
    /\ statusReqs' = statusReqs \cup {StatusAnswer(j)}
    /\ UNCHANGED <<sideVars, fileVars, currentJob, currentOutputFormat, gridVars,
                   createMutation, pxCreates, queryData, backend, histVars>>
    /\ toast' = Undefined

\* a response handler that stores the snapshot itself, whatever job is held
StatusResponseNoCancel(m) ==
    /\ m \in statusReqs
    /\ statusReqs' = statusReqs \ {m}
    /\ queryData' = [queryData EXCEPT ![m.job_id] = m.reply]
    /\ currentJob' = m.reply
    /\ toast' = EffectToast(jobStatus, m.reply)
    /\ observedTerminal' = IF Terminal(m.reply.status)
                           THEN observedTerminal \cup {m.job_id}
                           ELSE observedTerminal
    /\ fetchFailed' = IF m.job_id = QueryKey THEN FALSE ELSE fetchFailed
    /\ UNCHANGED <<sideVars, fileVars, currentOutputFormat, gridVars, createMutation,
                   pxCreates, backend>>

\* a status response arrives: the cache takes the data, the component renders
\* with the new jobStatus and runs the effect
StatusResponse(m) ==
    /\ m \in statusReqs
    /\ statusReqs' = statusReqs \ {m}
    /\ queryData' = [queryData EXCEPT ![m.job_id] = m.reply]
    /\ currentJob' = EffectJob(currentJob, jobStatus, JobStatusOf(currentJob, queryData'))
    /\ toast' = EffectToast(jobStatus, JobStatusOf(currentJob, queryData'))
    /\ observedTerminal' = IF Terminal(m.reply.status)
                           THEN observedTerminal \cup {m.job_id}
                           ELSE observedTerminal
    /\ fetchFailed' = IF m.job_id = QueryKey THEN FALSE ELSE fetchFailed
    /\ UNCHANGED <<sideVars, fileVars, currentOutputFormat, gridVars, createMutation,
                   pxCreates, backend>>

\* a status request fails (ApiClient.request throws): the query keeps its data
StatusFailure(m) ==
    /\ m \in statusReqs
    /\ statusReqs' = statusReqs \ {m}
    /\ fetchFailed' = IF m.job_id = QueryKey THEN TRUE ELSE fetchFailed
    /\ toast' = Undefined
    /\ UNCHANGED <<sideVars, fileVars, currentJob, currentOutputFormat, gridVars,
                   createMutation, pxCreates, queryData, backend, observedTerminal>>

\* the backend works on a job: pending -> processing -> completed | failed
BackendAdvance(j) ==
    /\ backend[j] # None
    /\ \/ /\ backend[j].status = "pending"
          /\ backend' = [backend EXCEPT ![j].status = "processing", ![j].progress = 40]
       \/ /\ backend[j].status = "processing"
          /\ \E out \in {Undefined, "x.jpg"} :
                backend' = [backend EXCEPT ![j].status = "completed",
                                           ![j].progress = 100,
                                           ![j].output_file = out]
       \/ /\ backend[j].status = "processing"
          /\ backend' = [backend EXCEPT ![j].status = "failed",
                                        ![j].error_message = "boom"]
    /\ UNCHANGED <<sideVars, fileVars, currentJob, currentOutputFormat, gridVars,
                   createMutation, pxCreates, queryData, statusReqs, histVars>>
    /\ toast' = Undefined

(* ------------------------------ download ------------------------------ *)
\* CollageMaker.handleDownload up to the await: returns without a job id,
\* otherwise sends the download request for the held job
handleDownload ==
    /\ IF currentJob = None
       THEN UNCHANGED downloads
       ELSE downloads' = downloads \cup {currentJob.job_id}
    /\ toast' = Undefined
    /\ UNCHANGED <<extraVars, overlapVars, fileVars, gridVars, currentJob, currentOutputFormat,
                   createMutation, pxCreates, queryData, statusReqs, backend,
                   histVars>>

\* the user presses "Download Collage"
Download ==
    /\ DownloadOffered
    /\ handleDownload

\* handleDownload after the await, blob received: the file is saved and the
\* success notice shown
DownloadSuccess(j) ==
    /\ j \in downloads
    /\ backend[j] # None
    /\ backend[j].output_file # Undefined
    /\ downloads' = downloads \ {j}
    /\ toast' = "Collage downloaded successfully!"
    /\ UNCHANGED <<extraVars, overlapVars, fileVars, gridVars, currentJob, currentOutputFormat,
                   createMutation, pxCreates, queryData, statusReqs, backend,
                   histVars>>

\* a failed download that also forgets the held job
DownloadFailureDropsJob(j) ==
    /\ j \in downloads
    /\ downloads' = downloads \ {j}
    /\ toast' = "Failed to download collage"
    /\ currentJob' = None
    /\ UNCHANGED <<extraVars, overlapVars, fileVars, gridVars, currentOutputFormat,
                   createMutation, pxCreates, queryData, statusReqs, backend,
                   histVars>>

\* handleDownload after the await, downloadCollage threw (artifact missing,
\* network error or 429): the catch shows the error notice
DownloadFailure(j) ==
    /\ j \in downloads
    /\ downloads' = downloads \ {j}
    /\ toast' = "Failed to download collage"
    /\ UNCHANGED <<extraVars, overlapVars, fileVars, gridVars, currentJob, currentOutputFormat,
                   createMutation, pxCreates, queryData, statusReqs, backend,
                   histVars>>

(* ------------------------------- reset -------------------------------- *)
\* CollageMaker.handleReset
handleReset ==
    /\ currentJob' = None
    /\ currentOutputFormat' = "jpeg"
    /\ gridOptimization' = None
    /\ showGridOptimization' = FALSE
    /\ fetchFailed' = FALSE
    /\ toast' = Undefined
    /\ UNCHANGED <<sideVars, fileVars, optimizeMutation, createMutation, pxCreates,
                   queryData, statusReqs, backend, observedTerminal>>

\* the user presses "Create New Collage"
Reset ==
    /\ ResetOffered
    /\ handleReset

(* ---------------------------- grid advisor ---------------------------- *)
\* what POST /api/collage/optimize-grid may answer for num_images images: the
\* grid is perfect, or images are to be added, or fewer than all to be removed
GridAnswers(num_images) ==
    {[is_perfect |-> TRUE, type |-> "perfect", images_needed |-> 0,
      images_to_remove |-> 0, total_images |-> num_images]}
      \cup {[is_perfect |-> FALSE, type |-> "add_images", images_needed |-> k,
              images_to_remove |-> 0, total_images |-> num_images] : k \in ImagesNeeded}
      \cup {[is_perfect |-> FALSE, type |-> "remove_images", images_needed |-> 0,
              images_to_remove |-> k, total_images |-> num_images] :
                 k \in {k \in ImagesToRemove : k < num_images}}

\* CollageMaker.handleOptimizeGrid
handleOptimizeGrid ==
    /\ IF Len(files) < MIN_FILES
       THEN /\ toast' = "Please upload at least 2 images"
            /\ UNCHANGED optimizeMutation
       ELSE /\ optimizeMutation' = [num_images |-> Len(files)]
            /\ toast' = Undefined
    /\ UNCHANGED <<sideVars, fileVars, currentJob, currentOutputFormat,
                   gridOptimization, showGridOptimization, createMutation,
                   pxCreates, queryData, statusReqs, backend, histVars>>

\* the "Optimize Grid" button: disabled={isOptimizingGrid || disabled}
OptimizeGrid ==
    /\ PanelVisible
    /\ optimizeMutation = None
    /\ ~disabled
    /\ handleOptimizeGrid

\* optimizeGridMutation.onSuccess
OptimizeGridSuccess ==
    /\ optimizeMutation # None
    /\ \E optimization \in GridAnswers(optimizeMutation.num_images) :
          gridOptimization' = optimization
    /\ showGridOptimization' = TRUE
    /\ optimizeMutation' = None
    /\ toast' = "Grid optimization completed!"
    /\ UNCHANGED <<sideVars, fileVars, currentJob, currentOutputFormat,
                   createMutation, pxCreates, queryData, statusReqs, backend,
                   histVars>>

\* optimizeGridMutation.onError
OptimizeGridError ==
    /\ optimizeMutation # None
    /\ optimizeMutation' = None
    /\ toast' = "Grid optimization failed"
    /\ UNCHANGED <<sideVars, fileVars, currentJob, currentOutputFormat,
                   gridOptimization, showGridOptimization, createMutation,
                   pxCreates, queryData, statusReqs, backend, histVars>>

\* the options of the results section: showGridOptimization && gridOptimization
\* && !current_grid.is_perfect
OptionsShown ==
    /\ showGridOptimization
    /\ gridOptimization # None
    /\ ~gridOptimization.is_perfect

\* Array.prototype.slice(0, end): a negative end counts from the end
SliceTo(s, end) ==
    LET stop == IF end < 0
                THEN (IF Len(s) + end < 0 THEN 0 ELSE Len(s) + end)
                ELSE (IF end > Len(s) THEN Len(s) ELSE end)
    IN  SubSeq(s, 1, stop)

\* handleAddImagesForOptimization putting a file into the set itself
handleAddImagesForOptimizationFills ==
    IF gridOptimization = None \/ gridOptimization.images_needed = 0
    THEN /\ toast' = Undefined
         /\ UNCHANGED <<sideVars, fileVars, gridVars, currentJob, currentOutputFormat,
                        createMutation, pxCreates, queryData, statusReqs, backend,
                        histVars>>
    ELSE IF Len(files) + gridOptimization.images_needed > ADD_LIMIT
    THEN /\ toast' = "Cannot add images"
         /\ UNCHANGED <<sideVars, fileVars, gridVars, currentJob, currentOutputFormat,
                        createMutation, pxCreates, queryData, statusReqs, backend,
                        histVars>>
    ELSE /\ toast' = "Please add more image(s) for perfect grid"
         /\ files' = Append(files, [id |-> 0, size |-> 0, type |-> "image/jpeg"])
         /\ gridOptimization' = None
         /\ showGridOptimization' = FALSE
         /\ UNCHANGED <<sideVars, picked, removed, unrevoked, optimizeMutation,
                        currentJob, currentOutputFormat, createMutation, pxCreates,
                        queryData, statusReqs, backend, histVars>>

\* CollageMaker.handleAddImagesForOptimization
handleAddImagesForOptimization ==
    IF gridOptimization = None \/ gridOptimization.images_needed = 0
    THEN /\ toast' = Undefined
         /\ UNCHANGED <<sideVars, fileVars, gridVars, currentJob, currentOutputFormat,
                        createMutation, pxCreates, queryData, statusReqs, backend,
                        histVars>>
    ELSE IF Len(files) + gridOptimization.images_needed > ADD_LIMIT
    THEN /\ toast' = "Cannot add images"
         /\ UNCHANGED <<sideVars, fileVars, gridVars, currentJob, currentOutputFormat,
                        createMutation, pxCreates, queryData, statusReqs, backend,
                        histVars>>
    ELSE /\ toast' = "Please add more image(s) for perfect grid"
         /\ gridOptimization' = None
         /\ showGridOptimization' = FALSE
         /\ UNCHANGED <<sideVars, fileVars, optimizeMutation, currentJob,
                        currentOutputFormat, createMutation, pxCreates, queryData,
                        statusReqs, backend, histVars>>

\* the "Add Images" button
AddImages ==
    /\ OptionsShown
    /\ gridOptimization.type = "add_images"
    /\ handleAddImagesForOptimization

\* CollageMaker.handleRemoveImagesForOptimization
handleRemoveImagesForOptimization ==
    IF gridOptimization = None \/ gridOptimization.images_to_remove = 0
    THEN /\ toast' = Undefined
         /\ UNCHANGED <<sideVars, fileVars, gridVars, currentJob, currentOutputFormat,
                        createMutation, pxCreates, queryData, statusReqs, backend,
                        histVars>>
    ELSE /\ files' = SliceTo(files, Len(files) - gridOptimization.images_to_remove)
         /\ removed' = removed + 1
         /\ gridOptimization' = None
         /\ showGridOptimization' = FALSE
         /\ toast' = "Removed image(s) for perfect grid"
         /\ UNCHANGED <<sideVars, picked, unrevoked,
                        optimizeMutation, currentJob, currentOutputFormat,
                        createMutation, pxCreates, queryData, statusReqs, backend,
                        histVars>>

\* the "Remove Images" button
RemoveImages ==
    /\ OptionsShown
    /\ gridOptimization.type = "remove_images"
    /\ picked + removed < MaxFileOps
    /\ handleRemoveImagesForOptimization

\* the "Close" button of the results section
CloseGridOptimization ==
    /\ OptionsShown
    /\ showGridOptimization' = FALSE
    /\ toast' = Undefined
    /\ UNCHANGED <<sideVars, fileVars, gridOptimization, optimizeMutation, currentJob,
                   currentOutputFormat, createMutation, pxCreates, queryData,
                   statusReqs, backend, histVars>>

(* ------------- overlap analysis (the analysis version) ---------------- *)
\* what POST /api/collage/analyze-overlaps may answer for nfiles files: no
\* recommended_removals field, or the 0-based indices of files to drop
AnalysisAnswers(nfiles) ==
    {[present |-> FALSE, recommended_removals |-> {}]}
      \cup {[present |-> TRUE, recommended_removals |-> r] :
                r \in {{}, {0}} \cap SUBSET (0..(nfiles - 1))}

\* !overlapAnalysis?.recommended_removals
NoRemovals == overlapAnalysis = None \/ ~overlapAnalysis.present

\* files.filter((_, index) => !indicesToRemove.includes(index))
WithoutIndices(s, indicesToRemove) ==
    LET kept == {i \in 1..Len(s) : (i - 1) \notin indicesToRemove}
        Nth[k \in 0..Len(s)] ==
            IF k = 0 THEN 0 ELSE CHOOSE i \in kept : i > Nth[k - 1] /\ \A j \in kept : j > Nth[k - 1] => i <= j
    IN  [k \in 1..Cardinality(kept) |-> s[Nth[k]]]

\* handleCreateCollage of the analysis version: the count test, then mutate
handleCreateCollageAnalysis(config) ==
    /\ IF Len(files) < MIN_FILES
       THEN /\ toast' = "Please upload at least 2 images"
            /\ UNCHANGED createMutation
       ELSE /\ createMutation' = [nfiles |-> Len(files)]
            /\ toast' = Undefined
    /\ UNCHANGED <<sideVars, fileVars, gridVars, currentJob, currentOutputFormat,
                   pxCreates, queryData, statusReqs, backend, histVars>>

\* handleCreateWithCleanFiles(config)
handleCreateWithCleanFiles(config) ==
    IF NoRemovals
    THEN handleCreateCollageAnalysis(config)
    ELSE /\ createMutation' =
                [nfiles |-> Len(WithoutIndices(files, overlapAnalysis.recommended_removals))]
         /\ toast' = Undefined
         /\ UNCHANGED <<sideVars, fileVars, gridVars, currentJob, currentOutputFormat,
                        pxCreates, queryData, statusReqs, backend, histVars>>

\* the form of the analysis version is submitted:
\* onCreateCollage={overlapAnalysis ? handleCreateWithCleanFiles : handleCreateCollage}
SubmitAnalysisForm(config) ==
    /\ PanelVisible
    /\ SubmitEnabled
    /\ IF overlapAnalysis # None
       THEN handleCreateWithCleanFiles(config)
       ELSE handleCreateCollageAnalysis(config)

\* handleAnalyze(config)
handleAnalyze(config) ==
    /\ IF Len(files) < MIN_FILES
       THEN /\ toast' = "Please upload at least 2 images"
            /\ UNCHANGED analyzeMutation
       ELSE /\ analyzeMutation' = [nfiles |-> Len(files)]
            /\ toast' = Undefined
    /\ UNCHANGED <<extraVars, downloads, overlapAnalysis, showAnalysisResults, fileVars, gridVars,
                   currentJob, currentOutputFormat, createMutation, pxCreates,
                   queryData, statusReqs, backend, histVars>>

\* the analyze button of the panel, not offered while isAnalyzing or disabled
Analyze(config) ==
    /\ PanelVisible
    /\ analyzeMutation = None
    /\ ~disabled
    /\ handleAnalyze(config)

\* analyzeOverlapsMutation.onSuccess
AnalyzeSuccess ==
    /\ analyzeMutation # None
    /\ overlapAnalysis' \in AnalysisAnswers(analyzeMutation.nfiles)
    /\ showAnalysisResults' = TRUE
    /\ analyzeMutation' = None
    /\ toast' = "Overlap analysis completed!"
    /\ UNCHANGED <<extraVars, downloads, fileVars, gridVars, currentJob, currentOutputFormat,
                   createMutation, pxCreates, queryData, statusReqs, backend,
                   histVars>>

\* analyzeOverlapsMutation.onError
AnalyzeError ==
    /\ analyzeMutation # None
    /\ analyzeMutation' = None
    /\ toast' = "Analysis failed"
    /\ UNCHANGED <<extraVars, downloads, overlapAnalysis, showAnalysisResults, fileVars, gridVars,
                   currentJob, currentOutputFormat, createMutation, pxCreates,
                   queryData, statusReqs, backend, histVars>>

\* the buttons under "Suggested Removals"
RemovalsShown ==
    /\ showAnalysisResults
    /\ overlapAnalysis # None
    /\ overlapAnalysis.present
    /\ overlapAnalysis.recommended_removals # {}

\* handleRemoveSuggested
handleRemoveSuggested ==
    IF NoRemovals
    THEN /\ toast' = Undefined
         /\ UNCHANGED <<sideVars, fileVars, gridVars, currentJob, currentOutputFormat,
                        createMutation, pxCreates, queryData, statusReqs, backend,
                        histVars>>
    ELSE /\ files' = WithoutIndices(files, overlapAnalysis.recommended_removals)
         /\ overlapAnalysis' = None
         /\ showAnalysisResults' = FALSE
         /\ toast' = "Removed suggested images"
         /\ UNCHANGED <<extraVars, downloads, analyzeMutation, picked, removed, unrevoked,
                        gridVars, currentJob, currentOutputFormat, createMutation,
                        pxCreates, queryData, statusReqs, backend, histVars>>

\* the "Remove Suggested Images" button
RemoveSuggested ==
    /\ RemovalsShown
    /\ handleRemoveSuggested

\* the "Close" button of the analysis results
CloseAnalysis ==
    /\ RemovalsShown
    /\ showAnalysisResults' = FALSE
    /\ toast' = Undefined
    /\ UNCHANGED <<extraVars, downloads, overlapAnalysis, analyzeMutation, fileVars, gridVars,
                   currentJob, currentOutputFormat, createMutation, pxCreates,
                   queryData, statusReqs, backend, histVars>>

\* handleReset of the analysis version
handleResetAnalysis ==
    /\ files' = <<>>
    /\ currentJob' = None
    /\ overlapAnalysis' = None
    /\ showAnalysisResults' = FALSE
    /\ fetchFailed' = FALSE
    /\ toast' = Undefined
    /\ UNCHANGED <<extraVars, downloads, analyzeMutation, picked, removed, unrevoked, gridVars,
                   currentOutputFormat, createMutation, pxCreates, queryData,
                   statusReqs, backend, observedTerminal>>

ResetAnalysis ==
    /\ ResetOffered
    /\ handleResetAnalysis

(* ------------------------------- Next --------------------------------- *)
Next ==
    \/ \E config \in Configs : SubmitForm(config)
    \/ CreateMutationSuccess
    \/ CreateMutationError
    \/ \E i \in 1..MaxPxInFlight : CreatePixelsSuccess(i)
    \/ \E i \in 1..MaxPxInFlight : CreatePixelsError(i)
    \/ \E j \in JobIds : PollTick(j)
    \/ \E m \in statusReqs : StatusResponse(m)
    \/ \E m \in statusReqs : StatusFailure(m)
    \/ \E j \in JobIds : BackendAdvance(j)
    \/ Reset

Spec == Init /\ [][Next]_vars

(* ------------------------- ConfigurationPanel ------------------------- *)
\* z.string().regex(/^#[0-9A-F]{6}([0-9A-F]{2})?$/i) on the colors of the model
BackgroundColorOk(color) == color \in {"#FFFFFF", "#112233", TRANSPARENT}

\* collageConfigSchema: the discriminated union on mode over baseSchema
\* (1219.2 mm is 1219 in whole millimeters)
SchemaOk(data) ==
    /\ IF data.mode = "mm"
       THEN /\ data.width_mm >= 50 /\ data.width_mm <= 1219
            /\ data.height_mm >= 50 /\ data.height_mm <= 1219
       ELSE /\ data.width_px >= 320 /\ data.width_px <= 20000
            /\ data.height_px >= 320 /\ data.height_px <= 20000
    /\ data.dpi >= 72 /\ data.dpi <= 300
    /\ data.spacing >= 0 /\ data.spacing <= 100
    /\ BackgroundColorOk(data.background_color)
    /\ data.output_format \in OutputFormats

\* useEffect on [outputFormat, transparency]: the transparency logic
TransparencyEffect(data) ==
    IF data.output_format = "png" /\ data.transparency
    THEN [data EXCEPT !.background_color = TRANSPARENT]
    ELSE IF data.output_format # "png" /\ data.transparency
    THEN [data EXCEPT !.transparency = FALSE]
    ELSE data

\* the mode switch: setValue of mode, dpi and the dimensions of the mode
SetMode(value) ==
    /\ PanelVisible
    /\ ~disabled
    /\ form' = IF value = "px"
               THEN [form EXCEPT !.mode = value, !.dpi = 96,
                                 !.width_px = 1920, !.height_px = 1080]
               ELSE [form EXCEPT !.mode = value, !.dpi = 150,
                                 !.width_mm = 150, !.height_mm = 100]
    /\ handed' = None
    /\ UNCHANGED <<componentVars, errorVars>>

\* a number input registered with valueAsNumber
SetNumber(field, value) ==
    /\ PanelVisible
    /\ ~disabled
    /\ field \in NumberFields(form.mode)
    /\ form' = [form EXCEPT ![field] = value]
    /\ handed' = None
    /\ UNCHANGED <<componentVars, errorVars>>

\* the color pickers and the color text input
SetBackgroundColor(color) ==
    /\ PanelVisible
    /\ ~disabled
    /\ form' = [form EXCEPT !.background_color = color]
    /\ handed' = None
    /\ UNCHANGED <<componentVars, errorVars>>

\* the output format select, followed by the transparency effect
SetOutputFormat(value) ==
    /\ PanelVisible
    /\ ~disabled
    /\ form' = TransparencyEffect([form EXCEPT !.output_format = value])
    /\ handed' = None
    /\ UNCHANGED <<componentVars, errorVars>>

\* the transparency checkbox, rendered for png only, followed by the effect
SetTransparency(checked) ==
    /\ PanelVisible
    /\ ~disabled
    /\ form.output_format = "png"
    /\ form' = TransparencyEffect([form EXCEPT !.transparency = checked])
    /\ handed' = None
    /\ UNCHANGED <<componentVars, errorVars>>

\* onSubmit handing the form values on as they are
onSubmitConfigAsIs(data) == data

\* onSubmit: the configuration made of the validated form values
onSubmitConfig(data) ==
    IF data.output_format = "png" /\ data.transparency
    THEN [data EXCEPT !.background_color = TRANSPARENT]
    ELSE data

\* the submit button: handleSubmit(onSubmit) validates the form values with
\* the schema and calls onSubmit only when they pass
SubmitPanel ==
    /\ PanelVisible
    /\ SubmitEnabled
    /\ handed' = IF SchemaOk(form)
                 THEN [via |-> "create", config |-> onSubmitConfig(form)]
                 ELSE None
    /\ UNCHANGED <<form, componentVars, errorVars>>

\* ConfigurationPanel.handleOptimizeGrid: onOptimizeGrid(watch())
OptimizeGridPanel ==
    /\ PanelVisible
    /\ ~disabled
    /\ optimizeMutation = None
    /\ handed' = [via |-> "optimize", config |-> form]
    /\ UNCHANGED <<form, componentVars, errorVars>>

(* ----------------------------- ApiClient ------------------------------ *)
\* response.ok: the status is in the range 200-299
Ok(r) == r.status >= 200 /\ r.status <= 299

\* the status code as a text, as in a message made of the raw status
StatusText(status) ==
    CASE status = 200 -> "200" [] status = 201 -> "201" [] status = 304 -> "304"
      [] status = 400 -> "400" [] status = 404 -> "404" [] status = 429 -> "429"
      [] status = 500 -> "500" [] OTHER -> "0"

\* fetch(url) resolves with a response of the backend
Fetch(r) ==
    /\ thrown # "pending"
    /\ response' = r
    /\ thrown' = "pending"
    /\ UNCHANGED <<componentVars, panelVars>>

\* the message of the Error thrown for a response that is not ok:
\* error.error for a 429, error.detail otherwise
ErrorMessage(r) == IF r.status = 429 THEN r.error ELSE r.detail

\* the download path taking detail for every status
DownloadErrorMessageDetailOnly(r) == r.detail

\* the same branches written out again in ApiClient.downloadCollage
DownloadErrorMessage(r) == IF r.status = 429 THEN r.error ELSE r.detail

\* ApiClient.request after the await of fetch: throws for a response that is
\* not ok, returns the body otherwise
request ==
    /\ thrown = "pending"
    /\ response.path = "request"
    /\ thrown' = IF Ok(response) THEN "none" ELSE ErrorMessage(response)
    /\ UNCHANGED <<response, componentVars, panelVars>>

\* ApiClient.downloadCollage after the await of fetch: throws for a response
\* that is not ok, returns the blob otherwise
downloadCollage ==
    /\ thrown = "pending"
    /\ response.path = "download"
    /\ thrown' = IF Ok(response) THEN "none" ELSE DownloadErrorMessage(response)
    /\ UNCHANGED <<response, componentVars, panelVars>>

(* ------------- submission with the output format recorded ------------- *)
\* setCurrentOutputFormat(config.output_format ?? "jpeg")
EffectiveFormat(output_format) ==
    IF output_format = Undefined THEN "jpeg" ELSE output_format

\* a.download = `collage-${currentJob.job_id}.${currentOutputFormat}`
SuggestedName == [job_id |-> currentJob.job_id, ext |-> currentOutputFormat]

\* CollageMaker.handleCreateCollage(config), from the submit button, with the
\* output_format field of collageData kept
SubmitFormRecorded(config) ==
    /\ PanelVisible
    /\ SubmitEnabled
    /\ IF Len(files) < MIN_FILES
       THEN /\ toast' = "Please upload at least 2 images"
            /\ UNCHANGED <<currentOutputFormat, createMutation, pxCreates,
                           createFormats>>
       ELSE /\ currentOutputFormat' = EffectiveFormat(config.output_format)
            /\ IF config.mode = "px"
               THEN /\ Len(pxCreates) < MaxPxInFlight
                    /\ pxCreates' = Append(pxCreates, CreateRequest(config))
                    /\ createFormats' =
                          [createFormats EXCEPT
                              !.px = Append(@, config.output_format)]
                    /\ UNCHANGED createMutation
               ELSE /\ createMutation' = CreateRequest(config)
                    /\ createFormats' =
                          [createFormats EXCEPT !.mm = config.output_format]
                    /\ UNCHANGED pxCreates
            /\ toast' = Undefined
    /\ UNCHANGED <<errorVars, panelVars, downloads, overlapVars, jobFormat, fileVars, currentJob, gridVars,
                   queryData, statusReqs, backend, histVars>>

\* createCollageMutation.onSuccess, the job's output format recorded
CreateMutationSuccessRecorded ==
    /\ createMutation # None
    /\ \E id \in JobIds :
          /\ BackendCreates(id)
          /\ CreateSucceeded(id)
          /\ jobFormat' = [jobFormat EXCEPT ![id] = createFormats.mm]
    /\ createMutation' = None
    /\ createFormats' = [createFormats EXCEPT !.mm = "none"]
    /\ UNCHANGED <<errorVars, panelVars, downloads, overlapVars, fileVars, currentOutputFormat, gridVars,
                   pxCreates, queryData, statusReqs, observedTerminal>>

\* createCollageMutation.onError
CreateMutationErrorRecorded ==
    /\ createMutation # None
    /\ createMutation' = None
    /\ createFormats' = [createFormats EXCEPT !.mm = "none"]
    /\ toast' = "Failed to create collage"
    /\ UNCHANGED <<errorVars, panelVars, downloads, overlapVars, jobFormat, fileVars, currentJob,
                   currentOutputFormat, gridVars, pxCreates, queryData, statusReqs,
                   backend, histVars>>

\* createCollageByPixels(...).then(...), the job's output format recorded
CreatePixelsSuccessRecorded(i) ==
    /\ i \in 1..Len(pxCreates)
    /\ \E id \in JobIds :
          /\ BackendCreates(id)
          /\ CreateSucceeded(id)
          /\ jobFormat' = [jobFormat EXCEPT ![id] = createFormats.px[i]]
    /\ pxCreates' = RemoveAt(pxCreates, i)
    /\ createFormats' = [createFormats EXCEPT !.px = RemoveAt(@, i)]
    /\ UNCHANGED <<errorVars, panelVars, downloads, overlapVars, fileVars, currentOutputFormat, gridVars,
                   createMutation, queryData, statusReqs, observedTerminal>>

\* createCollageByPixels(...).catch(...)
CreatePixelsErrorRecorded(i) ==
    /\ i \in 1..Len(pxCreates)
    /\ pxCreates' = RemoveAt(pxCreates, i)
    /\ createFormats' = [createFormats EXCEPT !.px = RemoveAt(@, i)]
    /\ toast' = "Failed to create collage"
    /\ UNCHANGED <<errorVars, panelVars, downloads, overlapVars, jobFormat, fileVars, currentJob,
                   currentOutputFormat, gridVars, createMutation, queryData,
                   statusReqs, backend, histVars>>

\* the job lifecycle with the download of the result
DownloadNext ==
    \/ Next
    \/ Download
    \/ \E j \in JobIds : DownloadSuccess(j)
    \/ \E j \in JobIds : DownloadFailure(j)

DownloadSpec == Init /\ [][DownloadNext]_vars

\* the job lifecycle and the download, every create request with its output
\* format
FormatNext ==
    \/ \E config \in Configs : SubmitFormRecorded(config)
    \/ CreateMutationSuccessRecorded
    \/ CreateMutationErrorRecorded
    \/ \E i \in 1..MaxPxInFlight : CreatePixelsSuccessRecorded(i)
    \/ \E i \in 1..MaxPxInFlight : CreatePixelsErrorRecorded(i)
    \/ \E j \in JobIds : PollTick(j)
    \/ \E m \in statusReqs : StatusResponse(m)
    \/ \E m \in statusReqs : StatusFailure(m)
    \/ \E j \in JobIds : BackendAdvance(j)
    \/ Reset
    \/ Download
    \/ \E j \in JobIds : DownloadSuccess(j)
    \/ \E j \in JobIds : DownloadFailure(j)

FormatSpec == Init /\ [][FormatNext]_vars

\* the ConfigurationPanel alone, rendered for an upload of MIN_FILES files
PanelNext ==
    \/ \E value \in Modes : SetMode(value)
    \/ \E field \in NumberFields(form.mode) :
          \E value \in NumberInputs(field) : SetNumber(field, value)
    \/ \E color \in BackgroundChoices : SetBackgroundColor(color)
    \/ \E value \in OutputFormats : SetOutputFormat(value)
    \/ \E checked \in BOOLEAN : SetTransparency(checked)
    \/ SubmitPanel
    \/ OptimizeGridPanel

PanelInit ==
    /\ files = FirstPicked(MIN_FILES)
    /\ FreshUpload
    /\ NoJob

PanelSpec == PanelInit /\ [][PanelNext]_vars

\* the ApiClient alone: responses of the backend and what the client raises
ApiNext ==
    \/ \E r \in Responses : Fetch(r)
    \/ request
    \/ downloadCollage

ApiSpec == Constructed /\ [][ApiNext]_vars

\* the same program with the create handler also exercised as a unit
HandlerNext ==
    \/ Next
    \/ \E config \in Configs : CallCreateHandler(config)

HandlerSpec == Init /\ [][HandlerNext]_vars

\* the analysis version of the component: the same job query, submission
\* through the mutation only, overlap analysis in place of the grid advisor
AnalysisNext ==
    \/ \E config \in Configs : Analyze(config)
    \/ AnalyzeSuccess
    \/ AnalyzeError
    \/ RemoveSuggested
    \/ CloseAnalysis
    \/ \E config \in Configs : SubmitAnalysisForm(config)
    \/ CreateMutationSuccess
    \/ CreateMutationError
    \/ \E j \in JobIds : PollTick(j)
    \/ \E m \in statusReqs : StatusResponse(m)
    \/ \E m \in statusReqs : StatusFailure(m)
    \/ \E j \in JobIds : BackendAdvance(j)
    \/ ResetAnalysis

AnalysisInit ==
    /\ files \in {FirstPicked(n) : n \in {0, MIN_FILES, MIN_FILES + 1}}
    /\ FreshUpload
    /\ NoJob

AnalysisSpec == AnalysisInit /\ [][AnalysisNext]_vars

\* status requests for the observed job keep being issued (the interval timer
\* fires while it runs) and keep being answered (they do not fail for ever)
Issued == \E j \in JobIds : PollTick(j)

Answered == \E m \in statusReqs : StatusResponse(m)

Fairness == WF_vars(Issued) /\ SF_vars(Answered)

\* the create requests under way and the jobs created, within the job ids
\* the backend assigns
CreatesWithinIds ==
    Cardinality({j \in JobIds : backend[j] # None}) + Len(pxCreates)
        + (IF createMutation # None THEN 1 ELSE 0) <= MaxJobs

\* a submission for which the backend has a job id left
SubmitFormWithinIds(config) ==
    /\ SubmitForm(config)
    /\ CreatesWithinIds'

\* the job lifecycle, every create request with a job id left for it
FairNext ==
    \/ \E config \in Configs : SubmitFormWithinIds(config)
    \/ CreateMutationSuccess
    \/ CreateMutationError
    \/ \E i \in 1..MaxPxInFlight : CreatePixelsSuccess(i)
    \/ \E i \in 1..MaxPxInFlight : CreatePixelsError(i)
    \/ \E j \in JobIds : PollTick(j)
    \/ \E m \in statusReqs : StatusResponse(m)
    \/ \E m \in statusReqs : StatusFailure(m)
    \/ \E j \in JobIds : BackendAdvance(j)
    \/ Reset

FairSpec == Init /\ [][FairNext]_vars /\ Fairness

\* the upload area on its own, from the component as constructed
FileNext ==
    \/ \E fileList \in FileLists : processFiles(fileList)
    \/ RemoveShown
    \/ OptimizeGrid
    \/ OptimizeGridSuccess
    \/ OptimizeGridError
    \/ AddImages
    \/ RemoveImages
    \/ CloseGridOptimization
    \/ Reset

FileSpec == FileInit /\ [][FileNext]_vars

(* ----------------------- observations on steps ------------------------ *)
\* a create request leaves the client in this step
NewCreateRequest ==
    \/ createMutation = None /\ createMutation' # None
    \/ Len(pxCreates') > Len(pxCreates)

\* a create request ends in this step without a job having been created
FailedCreate ==
    /\ \/ createMutation # None /\ createMutation' = None
       \/ Len(pxCreates') < Len(pxCreates)
    /\ backend' = backend

\* a status request for job j leaves the client in this step
NewStatusRequest(j) ==
    \E m \in statusReqs' \ statusReqs : m.job_id = j

\* a status request ends in this step, with a response or with a failure
StatusRequestEnds ==
    \E m \in statusReqs : StatusResponse(m) \/ StatusFailure(m)

NotTerminalYet(j) == queryData[j] = None \/ ~Terminal(queryData[j].status)

(* ------------------------------- claims ------------------------------- *)

\* C1: with fewer than 2 files in the file set, every call of the create
\* handler is refused with the error notice, and no step sends a create request.
C1_FewFilesRefused ==
    [][Len(files) < 2 =>
          /\ ~NewCreateRequest
          /\ (\E config \in Configs : SubmitForm(config) \/ CallCreateHandler(config))
                => toast' = "Please upload at least 2 images"]_vars

C1_Witness ==
    /\ Len(files) < 2
    /\ toast = "Please upload at least 2 images"
    /\ createMutation = None
    /\ pxCreates = <<>>

\* C2: once a terminal status is displayed for a job, no step makes the display
\* of that job non-terminal or different, and a status response that arrives
\* leaves the display as it is.
C2_NoRegression ==
    [][(displayedJob # None /\ Terminal(displayedJob.status)) =>
          /\ (displayedJob' # None /\ displayedJob'.job_id = displayedJob.job_id)
                => displayedJob' = displayedJob
          /\ StatusRequestEnds => displayedJob' = displayedJob]_vars

\* a terminal status is displayed while an older, non-terminal reply is on its way
C2_Witness ==
    /\ displayedJob # None
    /\ Terminal(displayedJob.status)
    /\ \E m \in statusReqs : ~Terminal(m.reply.status)

C4_ResetCancelsPolling ==
    [][currentJob = None =>
          /\ \A j \in JobIds : ~TimerActive(j) /\ ~NewStatusRequest(j)
          /\ StatusRequestEnds =>
                /\ currentJob' = None
                /\ displayedJob' = None
                /\ toast' = Undefined
                /\ UNCHANGED <<files, currentOutputFormat, gridVars, createMutation,
                               pxCreates>>]_vars

\* after a reset, a reply for a job held earlier is still on its way
C4_Witness ==
    /\ currentJob = None
    /\ observedTerminal # {}
    /\ statusReqs # {}

\* C5: as long as the held job has no terminal status, a status request is in
\* flight or the next one can be issued, however many requests failed in a row.
C5_FailureKeepsPolling ==
    \A j \in JobIds :
        (QueryKey = j /\ NotTerminalYet(j)) =>
            (Fetching(j) \/ ENABLED PollTick(j))

\* the held job's last status request failed and the next one is out
C5_Witness ==
    /\ fetchFailed
    /\ currentJob # None
    /\ Fetching(QueryKey)
    /\ NotTerminalYet(QueryKey)

\* C6: at most one timer is active and it is the held job's; status requests
\* are issued for the held job only, never for a job held before.
C6_OneTimer ==
    [][/\ Cardinality({j \in JobIds : TimerActive(j)}) <= 1
       /\ \A j \in JobIds :
             /\ TimerActive(j) => (currentJob # None /\ currentJob.job_id = j)
             /\ NewStatusRequest(j) => (currentJob # None /\ currentJob.job_id = j)
             /\ (backend[j] # None /\ QueryKey # j) => ~ENABLED PollTick(j)]_vars

\* a second job is held and polled while the first one has not reached a
\* terminal status
C6_Witness ==
    \E j, k \in JobIds :
        /\ j # k
        /\ backend[j] # None
        /\ NotTerminalYet(j)
        /\ QueryKey = k
        /\ TimerActive(k)

\* the backend took the held job to completed or failed and the client does
\* not show it yet: another status, a running timer, or no download button for
\* a completed job with an output file
Behind ==
    /\ currentJob # None
    /\ backend[QueryKey] # None
    /\ Terminal(backend[QueryKey].status)
    /\ \/ displayedJob.status # backend[QueryKey].status
       \/ TimerActive(QueryKey)
       \/ /\ backend[QueryKey].status = "completed"
          /\ backend[QueryKey].output_file # Undefined
          /\ ~DownloadOffered

\* C7: when the backend has taken the held job to completed or failed, and
\* status requests keep being issued and answered, the client comes to display
\* that terminal status with no timer running and with the download button
\* when the job completed with an output file.
C7_EventuallyTerminal == Behind ~> ~Behind

\* the held job completed with an output file, the display shows it with the
\* download button and the timer is off
C7_Witness ==
    \E j \in JobIds :
        /\ QueryKey = j
        /\ backend[j] # None
        /\ backend[j].status = "completed"
        /\ backend[j].output_file # Undefined
        /\ displayedJob.status = "completed"
        /\ DownloadOffered
        /\ ~TimerActive(j)

\* C11 (as claimed): every create request on its way carries at least 2 files,
\* also when it was built from the files left after the recommended removals.
C11_AsClaimed ==
    /\ createMutation # None => createMutation.nfiles >= 2
    /\ \A i \in 1..Len(pxCreates) : pxCreates[i].nfiles >= 2

\* the batch would take the file count or the total size above its ceiling
OverCeiling(fileList) ==
    \/ Len(files) + Len(fileList) > MAX_FILES
    \/ SumSizes(files) + SumSizes(fileList) > TOTAL_MAX_SIZE

\* C12: an add-files call whose batch would take the file count above
\* MAX_FILES or the total size above TOTAL_MAX_SIZE adds no file of the batch,
\* leaves the file set and its order as they were and shows the refusal.
C12_RefusedAsAWhole ==
    [][\A fileList \in FileLists :
          (processFiles(fileList) /\ OverCeiling(fileList)) =>
              /\ files' = files
              /\ unrevoked' = unrevoked
              /\ toast' \in {"Too many files", "Total file size exceeds 500MB limit."}]_vars

\* a batch was refused for the count at a file set one below the ceiling
C12_Witness ==
    /\ toast = "Too many files"
    /\ picked >= 2
    /\ Len(files) = MAX_FILES - 1

\* C13: the file set never holds more than MAX_FILES files nor more than
\* TOTAL_MAX_SIZE bytes, whatever is added, removed, advised or reset.
C13_WithinCeilings ==
    /\ Len(files) <= MAX_FILES
    /\ SumSizes(files) <= TOTAL_MAX_SIZE

\* files were added up to the count ceiling, or a batch was refused at the
\* size ceiling
C13_Witness ==
    \/ Len(files) = MAX_FILES /\ toast = "Added file(s)"
    \/ /\ SumSizes(files) = TOTAL_MAX_SIZE
       /\ toast = "Total file size exceeds 500MB limit."

\* a file the upload accepts: an accepted type and at most MAX_FILE_SIZE bytes
Acceptable(f) == f.type \in ACCEPTED_TYPES /\ f.size <= MAX_FILE_SIZE

\* the positions of the acceptable files of a batch, in batch order
RECURSIVE ValidPositions(_, _)
ValidPositions(fileList, n) ==
    IF n = 0 THEN <<>>
    ELSE IF Acceptable(fileList[n])
         THEN Append(ValidPositions(fileList, n - 1), n)
         ELSE ValidPositions(fileList, n - 1)

\* every file of the set is acceptable
AllAcceptable == \A i \in 1..Len(files) : Acceptable(files[i])

\* C14: every file of the set has an accepted type and at most MAX_FILE_SIZE
\* bytes; an add-files call that is not refused as a whole reports each
\* unacceptable file of the batch and appends the acceptable ones after the
\* existing files, in batch order.
C14_OnlyValidFilesEnter ==
    /\ []AllAcceptable
    /\ [][\A fileList \in FileLists :
             (processFiles(fileList) /\ ~OverCeiling(fileList)) =>
                 LET pos == ValidPositions(fileList, Len(fileList))
                 IN  /\ Len(files') = Len(files) + Len(pos)
                     /\ SubSeq(files', 1, Len(files)) = files
                     /\ \A k \in 1..Len(pos) :
                           /\ files'[Len(files) + k].id = FirstFreeId + pos[k]
                           /\ files'[Len(files) + k].size = fileList[pos[k]].size
                           /\ files'[Len(files) + k].type = fileList[pos[k]].type
                     /\ Len(pos) < Len(fileList) =>
                           toast' \in {"Invalid file type", "File too large"}]_vars

\* a batch of an unacceptable file followed by an acceptable one was added:
\* the second file of the batch entered after the existing files
C14_Witness ==
    /\ toast \in {"Invalid file type", "File too large"}
    /\ Len(files) >= 1
    /\ files[Len(files)].id = MAX_FILES + picked
    /\ picked >= 2

\* C15 (as claimed): the preview handle of every file that has left the file
\* set (single removal, grid-advisor removal, reset) has been revoked: no
\* handle of a file outside the set stays unrevoked.
C15_AsClaimed == unrevoked \subseteq Ids(files)

\* C16 (as claimed): an accepted grid-advisor remove-images step with N images
\* to remove and L files in the set leaves exactly the first L - N files (none
\* when N is greater than L).
C16_AsClaimed ==
    [][(RemoveImages /\ gridOptimization.images_to_remove > 0) =>
          LET L == Len(files)
              N == gridOptimization.images_to_remove
          IN  files' = IF N >= L THEN <<>> ELSE SubSeq(files, 1, L - N)]_vars

\* C17 (as claimed): a grid-advisor add-images step whose needed images would
\* take the file count above the ceiling of the upload (MAX_FILES) is refused
\* with a message and changes neither the file set nor the suggestion.
C17_AsClaimed ==
    [][(AddImages /\ Len(files) + gridOptimization.images_needed > MAX_FILES) =>
          /\ toast' = "Cannot add images"
          /\ UNCHANGED <<files, gridOptimization, showGridOptimization>>]_vars

\* C18: a grid-advisor add-images step never changes the file set; when it is
\* accepted it shows the advice and clears the suggestion. Files enter the set
\* through add-files only.
C18_AddImagesOnlyAdvises ==
    /\ [][AddImages =>
            /\ UNCHANGED <<files, unrevoked>>
            /\ toast' = "Please add more image(s) for perfect grid" =>
                  gridOptimization' = None /\ ~showGridOptimization']_vars
    /\ [][~(Ids(files') \subseteq Ids(files)) =>
            \E fileList \in FileLists : processFiles(fileList)]_vars

\* the advice was shown for an accepted add-images and the suggestion is gone
C18_Witness ==
    /\ toast = "Please add more image(s) for perfect grid"
    /\ gridOptimization = None
    /\ ~showGridOptimization
    /\ Len(files) >= MIN_FILES

\* a download request is sent in this step
NewDownloadRequest == downloads' # downloads /\ downloads \subseteq downloads'

\* C19: a download request is sent only for the displayed job, and only when
\* that job is completed and has an output file; with no job, a pending, a
\* processing or a failed job, or a completed one without output file, no
\* download request is sent.
C19_DownloadOnlyWhenCompleted ==
    [][NewDownloadRequest =>
          /\ displayedJob # None
          /\ displayedJob.status = "completed"
          /\ displayedJob.output_file # Undefined
          /\ downloads' = downloads \cup {displayedJob.job_id}]_vars

\* a download request is in flight for the displayed, completed job
C19_Witness ==
    /\ displayedJob # None
    /\ displayedJob.status = "completed"
    /\ displayedJob.job_id \in downloads

\* C20: a failed download shows an error and changes nothing else: the held
\* job, the cached status and the displayed job stay as they were, no timer
\* starts and no status request is sent, and a download button that was
\* offered is still offered and can be pressed again.
C20_FailedDownloadKeepsJob ==
    [][(\E j \in JobIds : DownloadFailure(j)) =>
          /\ toast' = "Failed to download collage"
          /\ UNCHANGED <<currentJob, queryData, statusReqs, fetchFailed, files,
                         currentOutputFormat>>
          /\ displayedJob' = displayedJob
          /\ \A j \in JobIds : TimerActive(j)' = TimerActive(j)
          /\ DownloadOffered => DownloadOffered']_vars

\* the download of the displayed job has failed: the job is still completed,
\* nothing polls and the download is offered again
C20_Witness ==
    /\ toast = "Failed to download collage"
    /\ DownloadOffered
    /\ currentJob.status = "completed"
    /\ \A j \in JobIds : ~TimerActive(j)
    /\ downloads = {}

\* C21 (as claimed): whenever a download is requested, the suggested file name
\* is made of the held job's id and the output format of the submission that
\* created this job (jpeg when the submission chose none).
C21_AsClaimed ==
    [][NewDownloadRequest =>
          SuggestedName =
              [job_id |-> currentJob.job_id,
               ext |-> EffectiveFormat(jobFormat[currentJob.job_id])]]_vars

\* C22: for every response that is not 2xx the client raises an error whose
\* message is the error field of the body when the status is 429 and the
\* detail field otherwise, never the status code itself, on the generic
\* request path and on the download path; a 2xx response raises nothing.
C22_ErrorMessageSurfaced ==
    [][(request \/ downloadCollage) =>
          IF response.status \in 200..299
          THEN thrown' = "none"
          ELSE /\ response.status = 429 => thrown' = response.error
               /\ response.status # 429 => thrown' = response.detail
               /\ thrown' # StatusText(response.status)]_vars

\* a 429 whose body has both fields, with different texts, was answered on
\* the download path with the text of its error field
C22_Witness ==
    /\ response # None
    /\ response.path = "download"
    /\ response.status = 429
    /\ response.detail \notin {"undefined", response.error}
    /\ thrown = response.error

\* C23 (as claimed): a reset discards the held job, so that no timer polls
\* afterwards, clears the grid suggestion and its panel, restores the output
\* format jpeg and leaves the uploaded file set as it was.
C23_AsClaimed ==
    [][(Reset \/ ResetAnalysis) =>
          /\ currentJob' = None
          /\ \A j \in JobIds : ~TimerActive(j)'
          /\ gridOptimization' = None
          /\ ~showGridOptimization'
          /\ currentOutputFormat' = "jpeg"
          /\ files' = files]_vars

\* a configuration was handed to the create operation in the last step
HandedToCreate == handed # None /\ handed.via = "create"

\* C24: in every configuration handed to the create operation transparency
\* is set only with the format png, and with png and transparency the
\* background color is #00000000; choosing another format than png while
\* transparency is set turns transparency off.
C24_TransparencyOnlyForPng ==
    /\ [](HandedToCreate =>
            /\ handed.config.transparency => handed.config.output_format = "png"
            /\ (handed.config.output_format = "png" /\ handed.config.transparency)
                  => handed.config.background_color = TRANSPARENT)
    /\ [][\A value \in OutputFormats \ {"png"} :
             (SetOutputFormat(value) /\ form.transparency) => ~form'.transparency]_vars

\* a png configuration with transparency was handed over after the user had
\* picked another background color in the form
C24_Witness ==
    /\ HandedToCreate
    /\ handed.config.output_format = "png"
    /\ handed.config.transparency
    /\ form.background_color = "#112233"

\* C29 (as claimed): every configuration handed on towards the backend, for a
\* create request or for an optimize-grid request, passes the form schema.
C29_AsClaimed == handed # None => SchemaOk(handed.config)

\* C30 (as claimed): a configuration handed to the create operation with
\* another format than png never carries the background #00000000 (which
\* only the transparency effect writes into the form).
C30_AsClaimed ==
    (HandedToCreate /\ handed.config.output_format # "png")
        => handed.config.background_color # TRANSPARENT

\* C25 (as claimed): a create request is sent only while no job is held and
\* no other create request is in flight, in mm mode and in px mode.
C25_AsClaimed ==
    [][NewCreateRequest =>
          /\ currentJob = None
          /\ createMutation = None
          /\ pxCreates = <<>>]_vars

\* C26 (as claimed): when a grid-advisor add or remove action is applied, the
\* suggestion was computed for the number of files the set holds now.
C26_AsClaimed ==
    [][(AddImages \/ RemoveImages) =>
          gridOptimization.total_images = Len(files)]_vars

\* C27: the held job is dropped by a reset only when the displayed job is
\* completed or failed: never while it is pending or processing, and never
\* while the timer of the job query runs.
C27_ResetOnlyWhenTerminal ==
    [][Reset =>
          /\ displayedJob # None
          /\ Terminal(displayedJob.status)
          /\ Terminal(currentJob.status)
          /\ \A j \in JobIds : ~TimerActive(j)]_vars

\* a job came to its end, was displayed so and has been reset: its terminal
\* status is still cached and no job is held
C27_Witness ==
    /\ currentJob = None
    /\ \E j \in JobIds : queryData[j] # None /\ Terminal(queryData[j].status)

\* C28: a status request is sent only while a job is held, and for the id of
\* the job held at that time; none is sent before the first job is held or
\* after a reset.
C28_StatusRequestForHeldJob ==
    [][\A j \in JobIds :
          NewStatusRequest(j) => (currentJob # None /\ currentJob.job_id = j)]_vars

\* a status request is in flight for the held job, which is not the first job
\* of the run
C28_Witness ==
    /\ currentJob # None
    /\ currentJob.job_id > 1
    /\ \E m \in statusReqs : m.job_id = currentJob.job_id

\* C8 (as claimed): while a job is held, every status response that arrives
\* makes the held job equal to its snapshot, and the held job changes only by a
\* status response or by reset.
C8_AsClaimed ==
    [][currentJob # None =>
          /\ \A m \in statusReqs : StatusResponse(m) => currentJob' = m.reply
          /\ currentJob' # currentJob =>
                (currentJob' = None \/ \E m \in statusReqs : StatusResponse(m))]_vars

\* C9 (as claimed): from the moment a job is held until reset its id is the same.
C9_AsClaimed ==
    [][(currentJob # None /\ currentJob' # None) =>
          currentJob'.job_id = currentJob.job_id]_vars

\* C10: a step in which a create request fails shows the error notice and
\* leaves the held job, the displayed job and the file set as they were; the
\* submit step of any request leaves the held job and the file set alone too.
C10_FailedCreateKeepsState ==
    [][/\ FailedCreate =>
            /\ toast' = "Failed to create collage"
            /\ UNCHANGED <<currentJob, files>>
            /\ displayedJob' = displayedJob
       /\ NewCreateRequest => UNCHANGED <<currentJob, files>>]_vars

\* a create request failed while a job was held
C10_Witness ==
    /\ toast = "Failed to create collage"
    /\ currentJob # None
    /\ Len(files) >= 2

====
